---- MODULE Spec2Model ----
(***************************************************************************)
(* Model of the VCF streaming parser of src/cpp/src/bioformats/vcf/        *)
(* validator.hpp: the two token policies (IgnoreParsePolicy,               *)
(* StoreParsePolicy), the two error policies, the parsing context and the  *)
(* three parser configurations.  The grammar engine, the bodies of the     *)
(* parsing context, of the error policies and of the entity constructors   *)
(* are not in validator.hpp; they are modelled from the specification.     *)
(*                                                                         *)
(* A character is a one-character string, a token a sequence of            *)
(* characters.  A std::map is a set of <<key, value>> pairs with unique    *)
(* keys.  The fixed literals of the grammar ("##fileformat=", "##", the    *)
(* column-header prefix) are single input symbols.                         *)
(***************************************************************************)
EXTENDS Integers, Sequences, FiniteSets, TLC

\* ------------------------------------------------------------------ bounds
MaxMeta    == 2    \* metadata lines of a document
MaxBody    == 2    \* body lines of a document
MaxSamples == 2    \* sample columns of a header line
MaxBatches == 2    \* parse() calls of one run

\* --------------------------------------------------------------- constants
INT_MAX == 2147483647
INT_MIN == -2147483647 - 1
FLT_MAX_EXP10 == 38          \* FLT_MAX = 3.4028235e38
FLT_MAX_LEAD  == 34028235
FLT_MIN_EXP10 == -38         \* FLT_MIN = 1.1754944e-38
FLT_MIN_LEAD  == 11754944
LeadDigits    == 8

\* ----------------------------------------------------------------- helpers
Digits == <<"0", "1", "2", "3", "4", "5", "6", "7", "8", "9">>
IsDigit(c) == \E i \in 1..10 : Digits[i] = c
DigitVal(c) == (CHOOSE i \in 1..10 : Digits[i] = c) - 1

Last(s) == s[Len(s)]
IsPrefix(s, t) == Len(s) <= Len(t) /\ SubSeq(t, 1, Len(s)) = s

RECURSIVE Pow10(_)
Pow10(n) == IF n = 0 THEN 1 ELSE 10 * Pow10(n - 1)

RECURSIVE NumDigits(_)
NumDigits(m) == IF m < 10 THEN 1 ELSE 1 + NumDigits(m \div 10)

\* std::map as a set of pairs
MapHas(m, k) == \E p \in m : p[1] = k
MapGet(m, k) == (CHOOSE p \in m : p[1] = k)[2]
MapPut(m, k, v) == {p \in m : p[1] # k} \cup {<<k, v>>}
MapEmplace(m, k, v) == IF MapHas(m, k) THEN m ELSE m \cup {<<k, v>>}

\* ------------------------------------------------------------ conversions
\* std::stoi: optional sign, then the longest run of digits; no digit is
\* std::invalid_argument, a value outside int is std::out_of_range, and
\* characters after the digits are ignored.
RECURSIVE StoiDigits(_, _, _, _)
StoiDigits(tok, i, neg, acc) ==
    IF i > Len(tok) \/ ~IsDigit(tok[i])
    THEN [kind |-> "ok", value |-> acc]
    ELSE LET d == DigitVal(tok[i])
             over == IF neg
                     THEN \/ acc < -214748364
                          \/ acc = -214748364 /\ d > 8
                     ELSE \/ acc > 214748364
                          \/ acc = 214748364 /\ d > 7
         IN  IF over
             THEN [kind |-> "out_of_range", value |-> 0]
             ELSE StoiDigits(tok, i + 1, neg,
                             IF neg THEN acc * 10 - d ELSE acc * 10 + d)

stoi(tok) ==
    LET signed == Len(tok) > 0 /\ tok[1] \in {"-", "+"}
        neg    == Len(tok) > 0 /\ tok[1] = "-"
        first  == IF signed THEN 2 ELSE 1
    IN  IF first > Len(tok) \/ ~IsDigit(tok[first])
        THEN [kind |-> "invalid_argument", value |-> 0]
        ELSE StoiDigits(tok, first, neg, 0)

\* static_cast<size_t>(int): the 64-bit two's complement of the int, as four
\* 16-bit limbs, most significant first.
static_cast_size_t(i) ==
    << IF i < 0 THEN 65535 ELSE 0,
       IF i < 0 THEN 65535 ELSE 0,
       (i \div 65536) % 65536,
       i % 65536 >>

\* The end of the run of digits of tok that starts at index i.
RECURSIVE DigitsEnd(_, _)
DigitsEnd(tok, i) ==
    IF i > Len(tok) \/ ~IsDigit(tok[i]) THEN i ELSE DigitsEnd(tok, i + 1)

\* The number written by the digits tok[i..j-1], leading zeros dropped.
RECURSIVE DigitsValue(_, _, _, _)
DigitsValue(tok, i, j, acc) ==
    IF i >= j THEN acc
    ELSE DigitsValue(tok, i + 1, j, acc * 10 + DigitVal(tok[i]))

\* A float as <<m, e>>, the value m * 10^e, with m not a multiple of ten
\* (zero is <<0, 0>>).
RECURSIVE Normal(_, _)
Normal(m, e) ==
    IF m = 0 THEN <<0, 0>>
    ELSE IF m % 10 = 0 /\ m # 0 THEN Normal(m \div 10, e + 1)
    ELSE <<m, e>>

Lead(m) == IF NumDigits(m) <= LeadDigits
           THEN m * Pow10(LeadDigits - NumDigits(m))
           ELSE m \div Pow10(NumDigits(m) - LeadDigits)

\* The scan of strtof: optional sign, digits with an optional fraction, an
\* optional exponent (taken only with a digit in it). i0..i1 are the integer
\* digits, f0..f1 the fraction digits, e0..e1 the exponent digits; last is
\* the index after the text taken.
StofValue(tok, i0, i1, f0, f1, eneg, e0, e1) ==
    [neg    |-> Len(tok) > 0 /\ tok[1] = "-",
     digits |-> (i1 - i0) + (f1 - f0),
     mant   |-> DigitsValue(tok, f0, f1, DigitsValue(tok, i0, i1, 0)),
     exp    |-> (IF e1 > e0
                 THEN (IF eneg THEN -1 ELSE 1) * DigitsValue(tok, e0, e1, 0)
                 ELSE 0) - (f1 - f0),
     last   |-> IF e1 > e0 THEN e1 ELSE f1]

StofExpDigits(tok, i0, i1, f0, f1, hasE, eneg, e0) ==
    StofValue(tok, i0, i1, f0, f1, eneg, e0,
              IF hasE THEN DigitsEnd(tok, e0) ELSE e0)

StofExpSign(tok, i0, i1, f0, f1, hasE, esign) ==
    StofExpDigits(tok, i0, i1, f0, f1, hasE,
                  esign /\ tok[f1 + 1] = "-",
                  IF esign THEN f1 + 2 ELSE f1 + 1)

StofExponent(tok, i0, i1, f0, f1, hasE) ==
    StofExpSign(tok, i0, i1, f0, f1, hasE,
                hasE /\ f1 + 1 <= Len(tok) /\ tok[f1 + 1] \in {"-", "+"})

StofFraction(tok, i0, i1, f0, f1) ==
    StofExponent(tok, i0, i1, f0, f1,
                 f1 <= Len(tok) /\ tok[f1] \in {"e", "E"})

StofDot(tok, i0, i1, dot) ==
    StofFraction(tok, i0, i1,
                 IF dot THEN i1 + 1 ELSE i1,
                 IF dot THEN DigitsEnd(tok, i1 + 1) ELSE i1)

StofInteger(tok, i0, i1) ==
    StofDot(tok, i0, i1, i1 <= Len(tok) /\ tok[i1] = ".")

StofSign(tok, i0) == StofInteger(tok, i0, DigitsEnd(tok, i0))

StofScan(tok) ==
    StofSign(tok, IF Len(tok) > 0 /\ tok[1] \in {"-", "+"} THEN 2 ELSE 1)

\* std::stof: no digit is std::invalid_argument, a value beyond the float
\* range (ERANGE of strtof) is std::out_of_range, and characters after the
\* number are ignored. val is the value scanned and top its decimal exponent.
StofRange(neg, val, top) ==
    IF /\ val[1] # 0
       /\ \/ top > FLT_MAX_EXP10
          \/ top = FLT_MAX_EXP10 /\ Lead(val[1]) > FLT_MAX_LEAD
          \/ top < FLT_MIN_EXP10
          \/ top = FLT_MIN_EXP10 /\ Lead(val[1]) < FLT_MIN_LEAD
    THEN [kind |-> "out_of_range", value |-> <<0, 0>>]
    ELSE [kind |-> "ok",
          value |-> IF neg THEN <<-val[1], val[2]>> ELSE val]

StofTop(neg, val) == StofRange(neg, val, NumDigits(val[1]) + val[2] - 1)

StofOf(scan) ==
    IF scan.digits = 0
    THEN [kind |-> "invalid_argument", value |-> <<0, 0>>]
    ELSE StofTop(scan.neg, Normal(scan.mant, scan.exp))

stof(tok) == StofOf(StofScan(tok))

\* --------------------------------------------------------------- documents
\* Input symbols: the fixed literals of the grammar, the delimiters, and
\* characters.
LitFileformat == "##fileformat="
LitMeta       == "##"
LitAlt        == "##ALT=<ID="
LitHeader     == "#CHROM|POS|ID|REF|ALT|QUAL|FILTER|INFO"
LitHeaderF    == "#CHROM|POS|ID|REF|ALT|QUAL|FILTER|INFO|FORMAT"
Literals      == {LitFileformat, LitMeta, LitAlt, LitHeader, LitHeaderF}
TAB == "\t"
NL  == "\n"
IsTokenChar(b) == b \notin Literals \cup {TAB, NL}

RECURSIVE Join(_, _)
Join(toks, sep) ==
    IF toks = <<>> THEN <<>>
    ELSE IF Len(toks) = 1 THEN toks[1]
    ELSE toks[1] \o <<sep>> \o Join(Tail(toks), sep)

RECURSIVE JoinPairs(_)
JoinPairs(pairs) ==
    IF pairs = <<>> THEN <<>>
    ELSE pairs[1][1] \o <<"=">> \o pairs[1][2]
         \o (IF Len(pairs) = 1 THEN <<>> ELSE <<",">> \o JoinPairs(Tail(pairs)))

\* The sub-delimiter of body column n (ID, FILTER, INFO ";", ALT ",",
\* FORMAT and the sample columns ":").
SubDelims(n) ==
    IF n \in {3, 7, 8} THEN {";"}
    ELSE IF n = 5 THEN {","}
    ELSE IF n >= 9 THEN {":"}
    ELSE {}
SubDelimOf(n) == IF n \in {3, 7, 8} THEN ";" ELSE IF n = 5 THEN "," ELSE ":"

RECURSIVE JoinColumns(_, _)
JoinColumns(cols, n) ==
    IF cols = <<>> THEN <<>>
    ELSE Join(cols[1], SubDelimOf(n))
         \o (IF Len(cols) = 1 THEN <<>>
             ELSE <<TAB>> \o JoinColumns(Tail(cols), n + 1))

\* Line descriptions and the text of a line.
FileformatLine(ver)    == [kind |-> "fileformat", ver |-> ver]
GarbageLine            == [kind |-> "garbage"]
MetaPlain(v)           == [kind |-> "meta", shape |-> "Plain", id |-> <<>>,
                           value |-> v, pairs |-> <<>>]
MetaScalar(id, v)      == [kind |-> "meta", shape |-> "Scalar", id |-> id,
                           value |-> v, pairs |-> <<>>]
MetaStructured(id, ps) == [kind |-> "meta", shape |-> "Structured", id |-> id,
                           value |-> <<>>, pairs |-> ps]
MetaAlt(v, ps)         == [kind |-> "meta", shape |-> "Alt",
                           id |-> <<"A", "L", "T">>, value |-> v, pairs |-> ps]
HeaderLine(samples)    == [kind |-> "header", samples |-> samples]
HeaderNoSample         == [kind |-> "header_bad"]
BodyLine(cols)         == [kind |-> "body", cols |-> cols]

Bytes(l) ==
    CASE l.kind = "fileformat" -> <<LitFileformat>> \o l.ver \o <<NL>>
      [] l.kind = "garbage"    -> <<"?", NL>>
      [] l.kind = "meta" ->
           (CASE l.shape = "Plain"  -> <<LitMeta>> \o l.value
              [] l.shape = "Scalar" -> <<LitMeta>> \o l.id \o <<"=">> \o l.value
              [] l.shape = "Structured" ->
                   <<LitMeta>> \o l.id \o <<"=", "<">> \o JoinPairs(l.pairs) \o <<">">>
              [] l.shape = "Alt" ->
                   <<LitAlt>> \o l.value
                   \o (IF l.pairs = <<>> THEN <<>> ELSE <<",">> \o JoinPairs(l.pairs))
                   \o <<">">>)
           \o <<NL>>
      [] l.kind = "header" ->
           IF l.samples = <<>> THEN <<LitHeader, NL>>
           ELSE <<LitHeaderF, TAB>> \o Join(l.samples, TAB) \o <<NL>>
      [] l.kind = "header_bad" -> <<LitHeaderF, NL>>
      [] l.kind = "body" -> JoinColumns(l.cols, 1) \o <<NL>>

RECURSIVE Flatten(_)
Flatten(d) == IF d = <<>> THEN <<>> ELSE Bytes(d[1]) \o Flatten(Tail(d))

SeqsUpTo(S, n) == UNION {[1..k -> S] : k \in 0..n}

\* ---------------------------------------------------------- grammar engine
\* File := FileFormatLine MetaLine* ColumnHeaderLine BodyLine*.  One input
\* symbol moves the machine state cs and yields the events of that symbol,
\* in order: token begin/char/end around every token, the semantic event of
\* the token, column-end, the line's completion event, newline.
Ev(name)       == [ev |-> name, arg |-> <<>>]
EvArg(name, a) == [ev |-> name, arg |-> a]

\* Where the scan resumes after a violation in a section.
ResumeAt(section) ==
    IF section \in {"fileformat", "meta"} THEN "meta_bol" ELSE "body_bol"
SkipTo(bol) == IF bol = "meta_bol" THEN "skip_meta" ELSE "skip_body"

\* A violation: the section's error hook instead of the completion event;
\* then the scan resynchronises at the next newline, or abandons the input.
Violation(section, b, rs) ==
    IF ~rs THEN [cs |-> "abandon", evs |-> <<EvArg("section_error", <<section>>)>>]
    ELSE IF b = NL
    THEN [cs |-> ResumeAt(section),
          evs |-> <<EvArg("section_error", <<section>>), Ev("newline")>>]
    ELSE [cs |-> SkipTo(ResumeAt(section)),
          evs |-> <<EvArg("section_error", <<section>>)>>]

Begin(b) == <<Ev("token_begin"), EvArg("token_char", <<b>>)>>
Char(b)  == <<EvArg("token_char", <<b>>)>>
To(s, evs) == [cs |-> s, evs |-> evs]
MetaChar(b) == IsTokenChar(b) /\ b \notin {"=", "<", ">", ","}

Transition(s, n, b, rs) ==
    CASE s = "ff_bol" ->
           IF b = LitFileformat THEN To("ff_v0", <<>>)
           ELSE Violation("fileformat", b, rs)
      [] s = "ff_v0" ->
           IF IsTokenChar(b) THEN To("ff_v", Begin(b))
           ELSE Violation("fileformat", b, rs)
      [] s = "ff_v" ->
           IF IsTokenChar(b) THEN To("ff_v", Char(b))
           ELSE IF b = NL
           THEN To("meta_bol", <<Ev("token_end"), Ev("fileformat"), Ev("newline")>>)
           ELSE Violation("fileformat", b, rs)
      [] s = "meta_bol" ->
           IF b = LitMeta THEN To("meta_0", <<>>)
           ELSE IF b = LitAlt
           THEN To("meta_v0", <<EvArg("meta_typeid_given", <<"A", "L", "T">>),
                                EvArg("meta_key_given", <<"I", "D">>)>>)
           ELSE IF b = LitHeader THEN To("hdr_end", <<>>)
           ELSE IF b = LitHeaderF THEN To("hdr_tab", <<>>)
           ELSE Violation("meta", b, rs)
      [] s = "meta_0" ->
           IF MetaChar(b) THEN To("meta_1", Begin(b)) ELSE Violation("meta", b, rs)
      [] s = "meta_1" ->
           IF MetaChar(b) THEN To("meta_1", Char(b))
           ELSE IF b = "=" THEN To("meta_eq", <<Ev("token_end"), Ev("meta_typeid")>>)
           ELSE IF b = NL
           THEN To("meta_bol", <<Ev("token_end"), Ev("meta_line"), Ev("newline")>>)
           ELSE Violation("meta", b, rs)
      [] s = "meta_eq" ->
           IF b = "<" THEN To("meta_k0", <<>>)
           ELSE IF MetaChar(b) THEN To("meta_s", Begin(b))
           ELSE Violation("meta", b, rs)
      [] s = "meta_s" ->
           IF MetaChar(b) THEN To("meta_s", Char(b))
           ELSE IF b = NL
           THEN To("meta_bol", <<Ev("token_end"), Ev("meta_value"),
                                 Ev("meta_line"), Ev("newline")>>)
           ELSE Violation("meta", b, rs)
      [] s = "meta_k0" ->
           IF MetaChar(b) THEN To("meta_k", Begin(b)) ELSE Violation("meta", b, rs)
      [] s = "meta_k" ->
           IF MetaChar(b) THEN To("meta_k", Char(b))
           ELSE IF b = "=" THEN To("meta_v0", <<Ev("token_end"), Ev("meta_key")>>)
           ELSE Violation("meta", b, rs)
      [] s = "meta_v0" ->
           IF MetaChar(b) THEN To("meta_v", Begin(b)) ELSE Violation("meta", b, rs)
      [] s = "meta_v" ->
           IF MetaChar(b) THEN To("meta_v", Char(b))
           ELSE IF b = "," THEN To("meta_k0", <<Ev("token_end"), Ev("meta_value")>>)
           ELSE IF b = ">" THEN To("meta_close", <<Ev("token_end"), Ev("meta_value")>>)
           ELSE Violation("meta", b, rs)
      [] s = "meta_close" ->
           IF b = NL THEN To("meta_bol", <<Ev("meta_line"), Ev("newline")>>)
           ELSE Violation("meta", b, rs)
      [] s = "hdr_end" ->
           IF b = NL THEN To("body_bol", <<Ev("header_line"), Ev("newline")>>)
           ELSE Violation("header", b, rs)
      [] s = "hdr_tab" ->
           IF b = TAB THEN To("hdr_s0", <<>>) ELSE Violation("header", b, rs)
      [] s = "hdr_s0" ->
           IF IsTokenChar(b) THEN To("hdr_s", Begin(b)) ELSE Violation("header", b, rs)
      [] s = "hdr_s" ->
           IF IsTokenChar(b) THEN To("hdr_s", Char(b))
           ELSE IF b = TAB THEN To("hdr_s0", <<Ev("token_end"), Ev("sample_name")>>)
           ELSE IF b = NL
           THEN To("body_bol", <<Ev("token_end"), Ev("sample_name"),
                                 Ev("header_line"), Ev("newline")>>)
           ELSE Violation("header", b, rs)
      [] s \in {"body_bol", "body_t0"} ->
           IF IsTokenChar(b) /\ b \notin SubDelims(n) THEN To("body_t", Begin(b))
           ELSE Violation("body", b, rs)
      [] s = "body_t" ->
           IF b \in SubDelims(n) THEN To("body_t0", <<Ev("token_end")>>)
           ELSE IF IsTokenChar(b) THEN To("body_t", Char(b))
           ELSE IF b = TAB THEN To("body_t0", <<Ev("token_end"), Ev("column_end")>>)
           ELSE IF b = NL /\ n >= 8
           THEN To("body_bol", <<Ev("token_end"), Ev("column_end"),
                                 Ev("body_line"), Ev("newline")>>)
           ELSE Violation("body", b, rs)
      [] s = "skip_meta" ->
           IF b = NL THEN To("meta_bol", <<Ev("newline")>>) ELSE To(s, <<>>)
      [] s = "skip_body" ->
           IF b = NL THEN To("body_bol", <<Ev("newline")>>) ELSE To(s, <<>>)
      [] OTHER -> To("abandon", <<>>)

\* The section a machine state belongs to.
SectionOf(s) ==
    IF s \in {"ff_bol", "ff_v0", "ff_v"} THEN "fileformat"
    ELSE IF s \in {"hdr_end", "hdr_tab", "hdr_s0", "hdr_s"} THEN "header"
    ELSE IF s \in {"body_bol", "body_t0", "body_t", "skip_body"} THEN "body"
    ELSE "meta"

\* End of input: a complete document ends at the start of a body line; an
\* earlier end is a violation of the section the machine is in.
AtEof(s) ==
    IF s \in {"body_bol", "abandon"} THEN <<>>
    ELSE <<EvArg("section_error", <<SectionOf(s)>>)>>

\* ---------------------------------------------------------- configurations
IgnoreParsePolicy == "IgnoreParsePolicy"
StoreParsePolicy  == "StoreParsePolicy"
AbortErrorPolicy  == "AbortErrorPolicy"
ReportErrorPolicy == "ReportErrorPolicy"

\* Mutations of the configurations: a QuickValidator that aborts, a Reader
\* that reports.
QuickValidatorCfg_Aborting ==
    [ParsePolicy |-> IgnoreParsePolicy, ErrorPolicy |-> AbortErrorPolicy]
ReaderCfg_Reporting ==
    [ParsePolicy |-> StoreParsePolicy, ErrorPolicy |-> ReportErrorPolicy]

QuickValidatorCfg == [ParsePolicy |-> IgnoreParsePolicy, ErrorPolicy |-> ReportErrorPolicy]
FullValidatorCfg  == [ParsePolicy |-> StoreParsePolicy, ErrorPolicy |-> ReportErrorPolicy]
ReaderCfg         == [ParsePolicy |-> StoreParsePolicy, ErrorPolicy |-> AbortErrorPolicy]

\* The parsers of one run, all fed the same document: a QuickValidator, a
\* FullValidator and a Reader fed in the same chunks, and a FullValidator
\* fed the whole document in one parse() call.
Parsers == <<"Quick", "Full", "Reader", "Whole">>
NParsers == Len(Parsers)
Names == {Parsers[i] : i \in 1..NParsers}
Configuration(c) ==
    IF c = "Quick" THEN QuickValidatorCfg
    ELSE IF c = "Reader" THEN ReaderCfg
    ELSE FullValidatorCfg
Chunked(c) == c # "Whole"

\* ------------------------------------------------------------ document sets
Ver == <<"4", "1">>
POS_OK == <<"7">>
QUAL_NONE == <<".">>
INFO_NONE == << <<".">> >>
Columns(chrom, pos, qual, info) ==
    << <<chrom>>, <<pos>>, << <<".">> >>, << <<"A">> >>, << <<"C">> >>,
       <<qual>>, << <<".">> >>, info >>
Good    == BodyLine(Columns(<<"c">>, POS_OK, QUAL_NONE, INFO_NONE))
Another == BodyLine(Columns(<<"d">>, <<"1", "2">>, <<"3">>, INFO_NONE))

PosTokens  == { <<"1", "a">>, <<"a">>, <<"-", "5">>,
                <<"2", "1", "4", "7", "4", "8", "3", "6", "4", "8">> }
QualTokens == { <<"3", ".", "5">>, <<"3", "a">>, <<"a">>, <<"1", "e", "9", "9">> }
InfoLists  == { << <<"D">> >>,
                << <<"D", "=", "1">>, <<"E">> >>,
                << <<"D", "=", "1">>, <<"D", "=", "2">> >>,
                << <<"D", "=", "1", "=", "2">> >> }
SampleNames == <<"S", "T", "U", "V">>
SampleTokens(k) == [i \in 1..k |-> <<SampleNames[i], "x">>]
SampleColumns(k) == [i \in 1..k |-> << <<"0", "|", Digits[i + 1]>> >>]
WithSamples(k) ==
    BodyLine(Columns(<<"c">>, POS_OK, QUAL_NONE, INFO_NONE)
             \o << << <<"G">>, <<"P">> >> >> \o SampleColumns(k))
\* A sample column of two sub-tokens, "0|1:5".
SplitSample ==
    BodyLine(Columns(<<"c">>, POS_OK, QUAL_NONE, INFO_NONE)
             \o << << <<"G">>, <<"P">> >> >>
             \o << << <<"0", "|", "1">>, <<"5">> >> >>)

BodyVariants == {Good, Another, GarbageLine,
                 BodyLine(Columns(<<"c">>, <<"a">>, QUAL_NONE, INFO_NONE))}
MetaVariants == {MetaPlain(<<"p">>), MetaScalar(<<"i">>, <<"v">>), GarbageLine}
MetaSingles  == {MetaStructured(<<"i">>, << <<<<"k">>, <<"v">>>> >>),
                 MetaStructured(<<"i">>, << <<<<"k">>, <<"v">>>>, <<<<"k">>, <<"w">>>> >>),
                 MetaStructured(<<"i">>, << <<<<"k">>, <<"v">>>>, <<<<"l">>, <<"w">>>> >>),
                 MetaAlt(<<"x">>, <<>>),
                 MetaAlt(<<"x">>, << <<<<"k">>, <<"v">>>> >>)}

Start == <<FileformatLine(Ver), HeaderLine(<<>>)>>
Docs ==
    {Start \o bs : bs \in SeqsUpTo(BodyVariants, MaxBody)}
    \cup {Start \o <<BodyLine(Columns(<<"c">>, p, QUAL_NONE, INFO_NONE))>> : p \in PosTokens}
    \cup {Start \o <<BodyLine(Columns(<<"c">>, POS_OK, q, INFO_NONE))>> : q \in QualTokens}
    \cup {Start \o <<BodyLine(Columns(<<"c">>, POS_OK, QUAL_NONE, i))>> : i \in InfoLists}
    \cup {<<FileformatLine(Ver), HeaderLine(SampleTokens(k)), WithSamples(k)>> :
            k \in 1..MaxSamples}
    \cup {<<FileformatLine(Ver), HeaderLine(SampleTokens(k))>> : k \in 1..MaxSamples}
    \cup {<<FileformatLine(Ver), HeaderLine(SampleTokens(1)), SplitSample>>}
    \cup {<<FileformatLine(Ver)>> \o ms \o <<HeaderLine(<<>>)>> :
            ms \in SeqsUpTo(MetaVariants, MaxMeta)}
    \cup {<<FileformatLine(Ver), m, HeaderLine(<<>>)>> : m \in MetaSingles}
    \cup {<<FileformatLine(Ver), m, MetaPlain(<<"p">>), HeaderLine(<<>>)>> : m \in MetaSingles}
    \cup {<<GarbageLine, HeaderLine(<<>>), Good>>,
          <<FileformatLine(Ver), HeaderNoSample, Good>>,
          <<FileformatLine(Ver)>>,
          <<FileformatLine(Ver), MetaPlain(<<"p">>)>>}

\* -------------------------------------------------------------------- state
VARIABLES
    doc, input, resync,          \* the document, its text, the continuation choice
    pos, turn, cut, called,      \* the feeding of the parsers, symbol by symbol
    chunks, phase, todo,         \* parse() calls so far; "feed"/"end"/"done"; events left
    n_lines, n_columns, n_batches, cs, m_is_valid,       \* ParsingState
    source, records,                                     \* the caller's entities
    m_current_token, m_line_typeid, m_grouped_tokens, m_line_tokens,
    status, diagnostics          \* how each run stands; the error hooks invoked

feed    == <<doc, input, resync, pos, turn, cut, called, chunks, phase, todo>>
context == <<n_lines, n_columns, n_batches, cs, m_is_valid>>
output  == <<source, records>>
policy  == <<m_current_token, m_line_typeid, m_grouped_tokens, m_line_tokens>>
vars    == <<feed, context, output, policy, status, diagnostics>>

EmptySource == [version |-> <<>>, meta |-> <<>>, samples |-> <<>>]

Init ==
    /\ doc \in Docs
    /\ input = Flatten(doc)
    /\ resync \in BOOLEAN
    /\ pos = 0 /\ turn = 1 /\ cut = TRUE /\ called = FALSE
    /\ chunks = 1 /\ phase = "feed" /\ todo = <<>>
    /\ n_lines = [c \in Names |-> 1]
    /\ n_columns = [c \in Names |-> 1]
    /\ n_batches = [c \in Names |-> 0]
    /\ cs = [c \in Names |-> "ff_bol"]
    /\ m_is_valid = [c \in Names |-> TRUE]
    /\ source = [c \in Names |-> EmptySource]
    /\ records = [c \in Names |-> <<>>]
    /\ m_current_token = [c \in Names |-> <<>>]
    /\ m_line_typeid = [c \in Names |-> <<>>]
    /\ m_grouped_tokens = [c \in Names |-> <<>>]
    /\ m_line_tokens = [c \in Names |-> {}]
    /\ status = [c \in Names |-> "running"]
    /\ diagnostics = [c \in Names |-> <<>>]

\* ------------------------------------------------------------ ParsingState
\* The mutation entry points of the parsing context; they never fail.
set_version(c, fileformat) ==
    /\ source' = [source EXCEPT ![c].version = fileformat]
    /\ UNCHANGED records
add_meta(c, meta) ==
    /\ source' = [source EXCEPT ![c].meta = Append(@, meta)]
    /\ UNCHANGED records
\* Mutation: the sequence keeps only the latest Record.
add_record_Replacing(c, record) ==
    /\ records' = [records EXCEPT ![c] = <<record>>]
    /\ UNCHANGED source
add_record(c, record) ==
    /\ records' = [records EXCEPT ![c] = Append(@, record)]
    /\ UNCHANGED source
set_samples(c, samples) ==
    /\ source' = [source EXCEPT ![c].samples = samples]
    /\ UNCHANGED records
is_valid(c) == m_is_valid[c]

\* ------------------------------------------------------------ entity model
\* The three MetaEntry constructors and the Record constructor.
MetaEntryPlain(value) ==
    [shape |-> "Plain", id |-> <<>>, value |-> value, key_values |-> {}]
MetaEntryScalar(id, value) ==
    [shape |-> "Scalar", id |-> id, value |-> value, key_values |-> {}]
MetaEntryStructured(id, key_values) ==
    [shape |-> "Structured", id |-> id, value |-> <<>>, key_values |-> key_values]
Record(chromosome, position, ids, reference, alternates, quality, filters, info, format, samples) ==
    [chromosome |-> chromosome, position |-> position, ids |-> ids,
     reference |-> reference, alternates |-> alternates, quality |-> quality,
     filters |-> filters, info |-> info, format |-> format, samples |-> samples]

\* -------------------------------------------------------- IgnoreParsePolicy
\* Mutation: the Discard policy keeps an entity for every event.
Ignore_handle_Storing(c) ==
    /\ records' = [records EXCEPT ![c] = Append(@, <<>>)]
    /\ UNCHANGED <<policy, source, status>>

Ignore_handle(c) == UNCHANGED <<policy, output, status>>
Ignore_current_token(c) == <<>>

\* --------------------------------------------------------- StoreParsePolicy
Store_handle_token_begin(c) ==
    /\ m_current_token' = [m_current_token EXCEPT ![c] = <<>>]
    /\ UNCHANGED <<m_line_typeid, m_grouped_tokens, m_line_tokens, output, status>>

\* Mutation: the token buffer does not outlive the parse() call, so the first
\* character of a chunk starts the buffer afresh.
Store_handle_token_char_PerCall(c, ch) ==
    /\ m_current_token' = [m_current_token EXCEPT ![c] =
                             IF called THEN <<ch>> ELSE Append(@, ch)]
    /\ UNCHANGED <<m_line_typeid, m_grouped_tokens, m_line_tokens, output, status>>

Store_handle_token_char(c, ch) ==
    /\ m_current_token' = [m_current_token EXCEPT ![c] = Append(@, ch)]
    /\ UNCHANGED <<m_line_typeid, m_grouped_tokens, m_line_tokens, output, status>>

\* Mutation: the end of a token pushes nothing onto the group.
Store_handle_token_end_Dropping(c) ==
    UNCHANGED <<policy, output, status>>

Store_handle_token_end(c) ==
    /\ m_grouped_tokens' = [m_grouped_tokens EXCEPT ![c] = Append(@, m_current_token[c])]
    /\ UNCHANGED <<m_current_token, m_line_typeid, m_line_tokens, output, status>>

\* Mutation: the newline also clears the sample roster of the Source.
Store_handle_newline_ResetRoster(c) ==
    /\ m_current_token' = [m_current_token EXCEPT ![c] = <<>>]
    /\ m_grouped_tokens' = [m_grouped_tokens EXCEPT ![c] = <<>>]
    /\ m_line_tokens' = [m_line_tokens EXCEPT ![c] = {}]
    /\ source' = [source EXCEPT ![c].samples = <<>>]
    /\ UNCHANGED <<m_line_typeid, records, status>>

Store_handle_newline(c) ==
    /\ m_current_token' = [m_current_token EXCEPT ![c] = <<>>]
    /\ m_grouped_tokens' = [m_grouped_tokens EXCEPT ![c] = <<>>]
    /\ m_line_tokens' = [m_line_tokens EXCEPT ![c] = {}]
    /\ UNCHANGED <<m_line_typeid, output, status>>

Store_handle_fileformat(c) ==
    /\ set_version(c, m_current_token[c])
    /\ UNCHANGED <<policy, status>>

Store_handle_meta_typeid(c) ==
    /\ m_line_typeid' = [m_line_typeid EXCEPT ![c] = m_current_token[c]]
    /\ UNCHANGED <<m_current_token, m_grouped_tokens, m_line_tokens, output, status>>

Store_handle_meta_typeid_given(c, type_id) ==
    /\ m_line_typeid' = [m_line_typeid EXCEPT ![c] = type_id]
    /\ UNCHANGED <<m_current_token, m_grouped_tokens, m_line_tokens, output, status>>

Store_handle_meta_key(c) ==
    /\ m_grouped_tokens' = [m_grouped_tokens EXCEPT ![c] = Append(@, m_current_token[c])]
    /\ UNCHANGED <<m_current_token, m_line_typeid, m_line_tokens, output, status>>

Store_handle_meta_key_given(c, key) ==
    /\ m_grouped_tokens' = [m_grouped_tokens EXCEPT ![c] = Append(@, key)]
    /\ UNCHANGED <<m_current_token, m_line_typeid, m_line_tokens, output, status>>

Store_handle_meta_value(c) ==
    /\ m_grouped_tokens' = [m_grouped_tokens EXCEPT ![c] = Append(@, m_current_token[c])]
    /\ UNCHANGED <<m_current_token, m_line_typeid, m_line_tokens, output, status>>

\* key_values[tokens[i]] = tokens[i+1] for i = 0, 2, ...: the last write wins.
RECURSIVE KeyValues(_, _)
KeyValues(tokens, acc) ==
    IF Len(tokens) < 2 THEN acc
    ELSE KeyValues(SubSeq(tokens, 3, Len(tokens)), MapPut(acc, tokens[1], tokens[2]))

\* Reading element 0 of an empty vector is undefined behaviour: the run is
\* marked "undefined", and nothing may be assumed of it afterwards.
Undefined(c) ==
    /\ status' = [status EXCEPT ![c] = "undefined"]
    /\ UNCHANGED <<policy, output>>

Store_handle_meta_line(c) ==
    LET tokens == m_grouped_tokens[c]
        typeid == m_line_typeid[c]
    IN  IF typeid = <<>>
        THEN IF tokens = <<>> THEN Undefined(c)
             ELSE /\ add_meta(c, MetaEntryPlain(tokens[1]))
                  /\ UNCHANGED <<policy, status>>
        ELSE IF Len(tokens) = 1
        THEN /\ add_meta(c, MetaEntryScalar(typeid, tokens[1]))
             /\ UNCHANGED <<policy, status>>
        ELSE IF Len(tokens) % 2 = 0
        THEN /\ add_meta(c, MetaEntryStructured(typeid, KeyValues(tokens, {})))
             /\ UNCHANGED <<policy, status>>
        ELSE UNCHANGED <<policy, output, status>>

Store_handle_sample_name(c) ==
    /\ m_grouped_tokens' = [m_grouped_tokens EXCEPT ![c] = Append(@, m_current_token[c])]
    /\ UNCHANGED <<m_current_token, m_line_typeid, m_line_tokens, output, status>>

Store_handle_header_line(c) ==
    /\ set_samples(c, m_grouped_tokens[c])
    /\ UNCHANGED <<policy, status>>

\* Mutation: the second and third column names exchanged.
ColumnNames_Swapped ==
    <<"CHROM", "ID", "POS", "REF", "ALT", "QUAL", "FILTER", "INFO", "FORMAT">>
ColumnNames == <<"CHROM", "POS", "ID", "REF", "ALT", "QUAL", "FILTER", "INFO", "FORMAT">>
Group(m, k) == IF MapHas(m, k) THEN MapGet(m, k) ELSE <<>>

Store_handle_column_end(c, n) ==
    LET tokens == m_grouped_tokens[c]
        line   == m_line_tokens[c]
    IN  IF n \in 1..9
        THEN /\ m_line_tokens' = [m_line_tokens EXCEPT ![c] = MapPut(line, ColumnNames[n], tokens)]
             /\ m_grouped_tokens' = [m_grouped_tokens EXCEPT ![c] = <<>>]
             /\ UNCHANGED <<m_current_token, m_line_typeid, output, status>>
        ELSE IF tokens = <<>> THEN Undefined(c)
        ELSE /\ m_line_tokens' = [m_line_tokens EXCEPT ![c] =
                    MapPut(line, "SAMPLES", Append(Group(line, "SAMPLES"), tokens[1]))]
             /\ m_grouped_tokens' = [m_grouped_tokens EXCEPT ![c] = <<>>]
             /\ UNCHANGED <<m_current_token, m_line_typeid, output, status>>

\* boost::split(subfields, field, boost::is_any_of("=")): cut at every "=".
RECURSIVE Split(_, _, _)
Split(field, current, done) ==
    IF field = <<>> THEN Append(done, current)
    ELSE IF field[1] = "="
    THEN Split(Tail(field), <<>>, Append(done, current))
    ELSE Split(Tail(field), Append(current, field[1]), done)

RECURSIVE InfoMap(_, _)
InfoMap(fields, info) ==
    IF fields = <<>> THEN info
    ELSE LET subfields == Split(fields[1], <<>>, <<>>)
         IN  InfoMap(Tail(fields),
                     IF Len(subfields) > 1
                     THEN MapEmplace(info, subfields[1], subfields[2])
                     ELSE MapEmplace(info, subfields[1], <<>>))

\* m_line_tokens[k] inserts an empty group for a missing key k.
Touched(m, ks) == m \cup {<<k, <<>>>> : k \in {k \in ks : ~MapHas(m, k)}}

\* An exception leaves handle_body_line: the run of the parser stops with it.
Throw(c, what, ks) ==
    /\ status' = [status EXCEPT ![c] = what]
    /\ m_line_tokens' = [m_line_tokens EXCEPT ![c] = Touched(@, ks)]
    /\ UNCHANGED <<m_current_token, m_line_typeid, m_grouped_tokens, output>>

Store_handle_body_line(c) ==
    LET line == m_line_tokens[c]
        POS  == Group(line, "POS")
        QUAL == Group(line, "QUAL")
        position == stoi(POS[1])
        parsed   == stof(QUAL[1])
        quality  == IF parsed.kind = "invalid_argument" THEN <<0, 0>> ELSE parsed.value
        info     == InfoMap(Group(line, "INFO"), {})
    IN  IF POS = <<>> THEN Throw(c, "undefined", {"POS"})
        ELSE IF position.kind = "invalid_argument"
        THEN Throw(c, "ParsingError", {"POS"})
        ELSE IF position.kind = "out_of_range"
        THEN Throw(c, "std::out_of_range", {"POS"})
        ELSE IF QUAL = <<>> THEN Throw(c, "undefined", {"POS", "QUAL"})
        ELSE IF parsed.kind = "out_of_range"
        THEN Throw(c, "std::out_of_range", {"POS", "QUAL"})
        ELSE IF Group(line, "CHROM") = <<>> \/ Group(line, "REF") = <<>>
        THEN Throw(c, "undefined", {"POS", "QUAL", "INFO", "CHROM", "ID", "REF"})
        ELSE /\ add_record(c, Record(Group(line, "CHROM")[1],
                                     static_cast_size_t(position.value),
                                     Group(line, "ID"),
                                     Group(line, "REF")[1],
                                     Group(line, "ALT"),
                                     quality,
                                     Group(line, "FILTER"),
                                     info,
                                     Group(line, "FORMAT"),
                                     Group(line, "SAMPLES")))
             /\ m_line_tokens' = [m_line_tokens EXCEPT ![c] =
                    Touched(@, {ColumnNames[k] : k \in 1..9} \cup {"SAMPLES"})]
             /\ UNCHANGED <<m_current_token, m_line_typeid, m_grouped_tokens, status>>

Store_current_token(c) == m_current_token[c]

\* ------------------------------------------------------------ error policies
SectionError(section) ==
    CASE section = "fileformat" -> "FileformatSectionError"
      [] section = "meta"       -> "MetaSectionError"
      [] section = "header"     -> "HeaderSectionError"
      [] section = "body"       -> "BodySectionError"

\* Abort: raise the section's fatal failure.
Abort_handle_section_error(c, section) ==
    /\ status' = [status EXCEPT ![c] = SectionError(section)]
    /\ diagnostics' = [diagnostics EXCEPT ![c] = Append(@, section)]
    /\ UNCHANGED <<m_is_valid, policy, output>>

\* Mutation: the Report hook surfaces the diagnostic and leaves the flag.
Report_handle_section_error_NoLatch(c, section) ==
    /\ diagnostics' = [diagnostics EXCEPT ![c] = Append(@, section)]
    /\ UNCHANGED <<m_is_valid, status, policy, output>>

\* Report: latch the validity flag to false, surface a diagnostic, go on.
Report_handle_section_error(c, section) ==
    /\ m_is_valid' = [m_is_valid EXCEPT ![c] = FALSE]
    /\ diagnostics' = [diagnostics EXCEPT ![c] = Append(@, section)]
    /\ UNCHANGED <<status, policy, output>>

\* ------------------------------------------------------------------ Parser
Cur == Parsers[turn]
Stores(c) == Configuration(c).ParsePolicy = StoreParsePolicy
Aborts(c) == Configuration(c).ErrorPolicy = AbortErrorPolicy
Pending(name) == phase \in {"feed", "end"} /\ todo # <<>> /\ Head(todo).ev = name
Least(S) == CHOOSE i \in S : \A j \in S : i <= j

\* The next parser still running gets the symbol; after the last one the
\* feeding moves to the next symbol, to end(), or is over.
Advance(st) ==
    LET later == {i \in (turn + 1)..NParsers : st[Parsers[i]] = "running"}
        alive == {i \in 1..NParsers : st[Parsers[i]] = "running"}
    IN  IF later # {}
        THEN /\ turn' = Least(later) /\ called' = FALSE
             /\ UNCHANGED <<pos, cut, phase>>
        ELSE IF phase = "feed"
        THEN /\ pos' = pos + 1 /\ cut' = FALSE /\ called' = FALSE
             /\ turn' = IF alive = {} THEN 1 ELSE Least(alive)
             /\ phase' = IF alive = {} THEN "done"
                         ELSE IF pos + 1 = Len(input) THEN "end" ELSE "feed"
        ELSE /\ turn' = 1 /\ called' = FALSE /\ phase' = "done"
             /\ UNCHANGED <<pos, cut>>

\* After an event: the next event of the symbol, or the next parser.  A
\* parser whose handler raised gets no further event.
Proceed ==
    /\ UNCHANGED <<doc, input, resync, chunks>>
    /\ IF status'[Cur] = "running" /\ Len(todo) > 1
       THEN /\ todo' = Tail(todo)
            /\ UNCHANGED <<pos, turn, cut, called, phase>>
       ELSE IF status'[Cur] = "running" /\ phase = "end"
       THEN /\ todo' = <<>>
            /\ UNCHANGED <<pos, turn, cut, called, phase>>
       ELSE /\ todo' = <<>>
            /\ Advance(status')

\* The caller ends the chunk before the next symbol.
Cut ==
    /\ phase = "feed" /\ todo = <<>> /\ ~cut /\ ~called /\ pos > 0
    /\ turn = Least({i \in 1..NParsers : status[Parsers[i]] = "running"})
    /\ chunks < MaxBatches
    /\ cut' = TRUE /\ chunks' = chunks + 1
    /\ UNCHANGED <<doc, input, resync, pos, turn, called, phase, todo>>
    /\ UNCHANGED <<context, output, policy, status, diagnostics>>

\* parse(text): a new chunk for the current parser; the machine state and
\* the policy's members are kept from the previous call.
Enter(c) ==
    /\ n_batches' = [n_batches EXCEPT ![c] = @ + 1]
    /\ UNCHANGED <<n_lines, n_columns, cs, m_is_valid, output, policy, status, diagnostics>>

Parser_parse ==
    /\ phase = "feed" /\ todo = <<>> /\ cut /\ ~called
    /\ Chunked(Cur) \/ pos = 0
    /\ Enter(Cur)
    /\ called' = TRUE
    /\ UNCHANGED <<doc, input, resync, pos, turn, cut, chunks, phase, todo>>

\* parse_buffer: the machine takes the next symbol.
Parser_parse_buffer ==
    /\ phase = "feed" /\ todo = <<>>
    /\ (cut /\ (Chunked(Cur) \/ pos = 0)) => called
    /\ LET t == Transition(cs[Cur], n_columns[Cur], input[pos + 1], resync)
       IN  /\ cs' = [cs EXCEPT ![Cur] = t.cs]
           /\ IF t.evs # <<>>
              THEN /\ todo' = t.evs
                   /\ UNCHANGED <<pos, turn, cut, called, phase>>
              ELSE /\ todo' = <<>>
                   /\ Advance(status)
    /\ UNCHANGED <<doc, input, resync, chunks>>
    /\ UNCHANGED <<n_lines, n_columns, n_batches, m_is_valid>>
    /\ UNCHANGED <<output, policy, status, diagnostics>>

\* end(): end of input.
Parser_end ==
    /\ phase = "end" /\ todo = <<>> /\ ~called
    /\ todo' = AtEof(cs[Cur])
    /\ called' = TRUE
    /\ UNCHANGED <<doc, input, resync, pos, turn, cut, chunks, phase>>
    /\ UNCHANGED <<context, output, policy, status, diagnostics>>

Parser_end_return ==
    /\ phase = "end" /\ todo = <<>> /\ called
    /\ status' = [status EXCEPT ![Cur] = "ended"]
    /\ Advance(status')
    /\ todo' = <<>>
    /\ UNCHANGED <<doc, input, resync, chunks>>
    /\ UNCHANGED <<context, output, policy, diagnostics>>

\* ------------------------------------------------- the events of the grammar
handle_token_begin ==
    /\ Pending("token_begin")
    /\ IF Stores(Cur) THEN Store_handle_token_begin(Cur) ELSE Ignore_handle(Cur)
    /\ UNCHANGED <<context, diagnostics>>
    /\ Proceed

handle_token_char ==
    /\ Pending("token_char")
    /\ IF Stores(Cur) THEN Store_handle_token_char(Cur, Head(todo).arg[1]) ELSE Ignore_handle(Cur)
    /\ UNCHANGED <<context, diagnostics>>
    /\ Proceed

handle_token_end ==
    /\ Pending("token_end")
    /\ IF Stores(Cur) THEN Store_handle_token_end(Cur) ELSE Ignore_handle(Cur)
    /\ UNCHANGED <<context, diagnostics>>
    /\ Proceed

handle_newline ==
    /\ Pending("newline")
    /\ IF Stores(Cur) THEN Store_handle_newline(Cur) ELSE Ignore_handle(Cur)
    /\ n_lines' = [n_lines EXCEPT ![Cur] = @ + 1]
    /\ n_columns' = [n_columns EXCEPT ![Cur] = 1]
    /\ UNCHANGED <<n_batches, cs, m_is_valid, diagnostics>>
    /\ Proceed

handle_fileformat ==
    /\ Pending("fileformat")
    /\ IF Stores(Cur) THEN Store_handle_fileformat(Cur) ELSE Ignore_handle(Cur)
    /\ UNCHANGED <<context, diagnostics>>
    /\ Proceed

handle_meta_typeid ==
    /\ Pending("meta_typeid")
    /\ IF Stores(Cur) THEN Store_handle_meta_typeid(Cur) ELSE Ignore_handle(Cur)
    /\ UNCHANGED <<context, diagnostics>>
    /\ Proceed

handle_meta_typeid_given ==
    /\ Pending("meta_typeid_given")
    /\ IF Stores(Cur) THEN Store_handle_meta_typeid_given(Cur, Head(todo).arg) ELSE Ignore_handle(Cur)
    /\ UNCHANGED <<context, diagnostics>>
    /\ Proceed

handle_meta_key ==
    /\ Pending("meta_key")
    /\ IF Stores(Cur) THEN Store_handle_meta_key(Cur) ELSE Ignore_handle(Cur)
    /\ UNCHANGED <<context, diagnostics>>
    /\ Proceed

handle_meta_key_given ==
    /\ Pending("meta_key_given")
    /\ IF Stores(Cur) THEN Store_handle_meta_key_given(Cur, Head(todo).arg) ELSE Ignore_handle(Cur)
    /\ UNCHANGED <<context, diagnostics>>
    /\ Proceed

handle_meta_value ==
    /\ Pending("meta_value")
    /\ IF Stores(Cur) THEN Store_handle_meta_value(Cur) ELSE Ignore_handle(Cur)
    /\ UNCHANGED <<context, diagnostics>>
    /\ Proceed

handle_meta_line ==
    /\ Pending("meta_line")
    /\ IF Stores(Cur) THEN Store_handle_meta_line(Cur) ELSE Ignore_handle(Cur)
    /\ UNCHANGED <<context, diagnostics>>
    /\ Proceed

handle_sample_name ==
    /\ Pending("sample_name")
    /\ IF Stores(Cur) THEN Store_handle_sample_name(Cur) ELSE Ignore_handle(Cur)
    /\ UNCHANGED <<context, diagnostics>>
    /\ Proceed

handle_header_line ==
    /\ Pending("header_line")
    /\ IF Stores(Cur) THEN Store_handle_header_line(Cur) ELSE Ignore_handle(Cur)
    /\ UNCHANGED <<context, diagnostics>>
    /\ Proceed

handle_column_end ==
    /\ Pending("column_end")
    /\ IF Stores(Cur) THEN Store_handle_column_end(Cur, n_columns[Cur]) ELSE Ignore_handle(Cur)
    /\ n_columns' = [n_columns EXCEPT ![Cur] = @ + 1]
    /\ UNCHANGED <<n_lines, n_batches, cs, m_is_valid, diagnostics>>
    /\ Proceed

handle_body_line ==
    /\ Pending("body_line")
    /\ IF Stores(Cur) THEN Store_handle_body_line(Cur) ELSE Ignore_handle(Cur)
    /\ UNCHANGED <<context, diagnostics>>
    /\ Proceed

ErrorHook(section) ==
    /\ Pending("section_error") /\ Head(todo).arg = <<section>>
    /\ IF Aborts(Cur) THEN Abort_handle_section_error(Cur, section)
       ELSE Report_handle_section_error(Cur, section)
    /\ UNCHANGED <<n_lines, n_columns, n_batches, cs>>
    /\ Proceed

handle_fileformat_section_error == ErrorHook("fileformat")
handle_meta_section_error       == ErrorHook("meta")
handle_header_section_error     == ErrorHook("header")
handle_body_section_error       == ErrorHook("body")

Next ==
    \/ Cut
    \/ Parser_parse
    \/ Parser_parse_buffer
    \/ Parser_end
    \/ Parser_end_return
    \/ handle_token_begin
    \/ handle_token_char
    \/ handle_token_end
    \/ handle_newline
    \/ handle_fileformat
    \/ handle_meta_typeid
    \/ handle_meta_typeid_given
    \/ handle_meta_key
    \/ handle_meta_key_given
    \/ handle_meta_value
    \/ handle_meta_line
    \/ handle_sample_name
    \/ handle_header_line
    \/ handle_column_end
    \/ handle_body_line
    \/ handle_fileformat_section_error
    \/ handle_meta_section_error
    \/ handle_header_section_error
    \/ handle_body_section_error

Spec == Init /\ [][Next]_vars

\* ------------------------------------------------------------------ claims
Done == phase = "done"
IsMinimal(d) ==
    /\ Len(d) >= 2
    /\ d[1].kind = "fileformat"
    /\ d[2].kind = "header"
    /\ \A i \in 3..Len(d) : d[i].kind = "body"
RecordOfLine(r, l) ==
    /\ r.chromosome = l.cols[1][1]
    /\ r.ids = l.cols[3]
    /\ r.reference = l.cols[4][1]
    /\ r.alternates = l.cols[5]
    /\ r.filters = l.cols[7]

\* C1: for a well-formed minimal document (version line, header line, body
\* lines), the FullValidator that reached the end of end() holds the
\* version of the input, no MetaEntry, the header's sample names in order
\* with no extra or repeated entry, and one Record per body line in order.
C1_FullBuildsMinimalDocument ==
    (IsMinimal(doc) /\ status["Full"] = "ended") =>
        /\ source["Full"].version = doc[1].ver
        /\ source["Full"].meta = <<>>
        /\ source["Full"].samples = doc[2].samples
        /\ Len(records["Full"]) = Len(doc) - 2
        /\ \A i \in 1..Len(records["Full"]) : RecordOfLine(records["Full"][i], doc[i + 2])

\* The same without the sample roster.
C1_ExceptRoster ==
    (IsMinimal(doc) /\ status["Full"] = "ended") =>
        /\ source["Full"].version = doc[1].ver
        /\ source["Full"].meta = <<>>
        /\ Len(records["Full"]) = Len(doc) - 2
        /\ \A i \in 1..Len(records["Full"]) : RecordOfLine(records["Full"][i], doc[i + 2])

C1_Reached ==
    /\ IsMinimal(doc) /\ status["Full"] = "ended"
    /\ doc[2].samples # <<>>
    /\ Len(records["Full"]) = 1

\* The MetaEntry a metadata line denotes.
PairSet(l) ==
    {<<l.pairs[i][1], l.pairs[i][2]>> : i \in 1..Len(l.pairs)}
    \cup (IF l.shape = "Alt" THEN {<<<<"I", "D">>, l.value>>} ELSE {})
MetaOfLine(l) ==
    CASE l.shape = "Plain"  -> MetaEntryPlain(l.value)
      [] l.shape = "Scalar" -> MetaEntryScalar(l.id, l.value)
      [] OTHER              -> MetaEntryStructured(l.id, PairSet(l))
LineOf(c) == doc[n_lines[c]]
AtMetaLine == Pending("meta_line") /\ Stores(Cur)

\* C2: at meta-line-complete the Materialize policy adds the MetaEntry the
\* line denotes (Structured with the given pairs, Scalar, or Plain),
\* whatever lines precede it.
C2_MetaEntryOfLine ==
    [][AtMetaLine =>
         source'[Cur].meta = Append(source[Cur].meta, MetaOfLine(LineOf(Cur)))]_vars

\* What does hold: a Plain line that no type-tagged line precedes.
C2_PlainWithoutTag ==
    [][(AtMetaLine /\ LineOf(Cur).shape = "Plain" /\ m_line_typeid[Cur] = <<>>) =>
         source'[Cur].meta = Append(source[Cur].meta, MetaOfLine(LineOf(Cur)))]_vars

\* C3: meta-line-complete with a type tag and an odd number (> 1) of group
\* tokens raises a failure and adds no MetaEntry, under Report and Abort.
OddGroup(c) ==
    /\ m_line_typeid[c] # <<>>
    /\ Len(m_grouped_tokens[c]) > 1
    /\ Len(m_grouped_tokens[c]) % 2 = 1
C3_OddGroupRaises ==
    [][(AtMetaLine /\ OddGroup(Cur)) =>
         /\ status'[Cur] \notin {"running", "ended"}
         /\ source'[Cur].meta = source[Cur].meta]_vars

\* What does hold: the odd group adds no MetaEntry (and raises nothing).
C3_OddGroupAddsNothing ==
    [][(AtMetaLine /\ OddGroup(Cur)) =>
         /\ status'[Cur] = "running"
         /\ source'[Cur] = source[Cur]]_vars

C5_QuickAsFull ==
    Done => /\ status["Quick"] = status["Full"]
            /\ is_valid("Quick") = is_valid("Full")
            /\ diagnostics["Quick"] = diagnostics["Full"]

\* C5 as amended: they agree on every input on which no handler of the
\* Materialize policy raises; where one raises, the FullValidator stops
\* with that failure, the QuickValidator goes on, and the hooks the
\* FullValidator invoked are the first of those of the QuickValidator.
C5_QuickAsFullUnlessRaised ==
    /\ status["Quick"] \in {"running", "ended"}
    /\ status["Full"] \in {"running", "ended", "ParsingError", "std::out_of_range"}
    /\ IsPrefix(diagnostics["Full"], diagnostics["Quick"])
    /\ (Done /\ status["Full"] = "ended") =>
          /\ status["Quick"] = "ended"
          /\ is_valid("Quick") = is_valid("Full")
          /\ diagnostics["Quick"] = diagnostics["Full"]

C5_Reached ==
    /\ Done
    /\ status["Full"] = "ended" /\ status["Quick"] = "ended"
    /\ Len(diagnostics["Full"]) = 2
    /\ ~is_valid("Full")

\* C6: in the Reader the first section violation raises a fatal failure;
\* from then on the record sequence never grows, and the records are those
\* of the body lines before the offending line, in order.
SectionErrors == {SectionError(x) : x \in {"fileformat", "meta", "header", "body"}}
BodyLinesBefore(n) == {i \in 1..(n - 1) : i <= Len(doc) /\ doc[i].kind = "body"}
C6_AtAbort ==
    /\ diagnostics["Reader"] # <<>> =>
          /\ status["Reader"] = SectionError(diagnostics["Reader"][1])
          /\ Len(diagnostics["Reader"]) = 1
    /\ status["Reader"] \in SectionErrors =>
          /\ Len(records["Reader"]) = Cardinality(BodyLinesBefore(n_lines["Reader"]))
          /\ \A i \in 1..Len(records["Reader"]) :
                /\ doc[i + 2].kind = "body"
                /\ RecordOfLine(records["Reader"][i], doc[i + 2])
C6_ReaderStopsAtViolation ==
    /\ []C6_AtAbort
    /\ [][status["Reader"] \in SectionErrors =>
            /\ records'["Reader"] = records["Reader"]
            /\ source'["Reader"] = source["Reader"]
            /\ status'["Reader"] = status["Reader"]]_vars

C6_Reached ==
    /\ Done
    /\ status["Reader"] = "BodySectionError"
    /\ Len(records["Reader"]) = 1
    /\ Len(records["Full"]) = 1
    /\ Len(doc) = 4

\* C7: under the Report policy the validity flag starts true, every error
\* hook sets it to false, and nothing sets it back: is_valid() is true
\* exactly when no hook was invoked.
Reporting == {c \in Names : ~Aborts(c)}
AtBodyLine == Pending("body_line") /\ Stores(Cur)
PosToken(c)  == Group(m_line_tokens[c], "POS")[1]
QualToken(c) == Group(m_line_tokens[c], "QUAL")[1]
Appended(c) == Len(records'[c]) = Len(records[c]) + 1

\* A token that is a number from its first to its last character.
IsNumber(tok) == StofScan(tok).digits > 0 /\ StofScan(tok).last = Len(tok) + 1
\* A token that is a non-negative integer of the int range.
IsPosition(tok) ==
    /\ Len(tok) > 0
    /\ \A i \in 1..Len(tok) : IsDigit(tok[i])
    /\ stoi(tok).kind = "ok"

\* C8: whatever the QUAL token, body-line-complete raises nothing and
\* appends a Record; the quality is 0 when the token is not a number.
C8_QualNeverRaises ==
    [][(AtBodyLine /\ stoi(PosToken(Cur)).kind = "ok") =>
         /\ status'[Cur] = "running"
         /\ Appended(Cur)
         /\ ~IsNumber(QualToken(Cur)) => Last(records'[Cur]).quality = <<0, 0>>]_vars

\* What does hold: a QUAL token with no digit at its start gives quality 0.
C8_NoDigitGivesZero ==
    [][(AtBodyLine /\ stoi(PosToken(Cur)).kind = "ok"
                   /\ StofScan(QualToken(Cur)).digits = 0) =>
         /\ status'[Cur] = "running"
         /\ Appended(Cur)
         /\ Last(records'[Cur]).quality = <<0, 0>>]_vars

\* C9: a POS token that is not a valid non-negative integer makes
\* body-line-complete raise a parsing failure and append nothing; a valid
\* one gives the appended Record the integer it denotes.
C9_PositionChecked ==
    [][AtBodyLine =>
         IF IsPosition(PosToken(Cur))
         THEN Appended(Cur) =>
                Last(records'[Cur]).position
                  = static_cast_size_t(DigitsValue(PosToken(Cur), 1, Len(PosToken(Cur)) + 1, 0))
         ELSE /\ status'[Cur] = "ParsingError"
              /\ records'[Cur] = records[Cur]]_vars

\* What does hold: a POS token with no digit at its start raises
\* ParsingError, and a valid one gives the position it denotes.
C9_NoDigitRaises ==
    [][AtBodyLine =>
         /\ stoi(PosToken(Cur)).kind = "invalid_argument" =>
              status'[Cur] = "ParsingError" /\ records'[Cur] = records[Cur]
         /\ (IsPosition(PosToken(Cur)) /\ Appended(Cur)) =>
              Last(records'[Cur]).position
                = static_cast_size_t(DigitsValue(PosToken(Cur), 1, Len(PosToken(Cur)) + 1, 0))]_vars

\* C10: a failure that leaves meta-line-complete or body-line-complete is a
\* ParsingError, whatever the tokens.
C10_OnlyParsingError ==
    [][(AtBodyLine \/ AtMetaLine) => status'[Cur] \in {"running", "ParsingError"}]_vars

\* The INFO subtokens and the columns of the body line being completed.
FirstEq(tok) ==
    IF \E i \in 1..Len(tok) : tok[i] = "="
    THEN Least({i \in 1..Len(tok) : tok[i] = "="})
    ELSE 0
InfoKey(tok) == IF FirstEq(tok) = 0 THEN tok ELSE SubSeq(tok, 1, FirstEq(tok) - 1)
InfoValue(tok) ==
    IF FirstEq(tok) = 0 THEN <<>> ELSE SubSeq(tok, FirstEq(tok) + 1, Len(tok))
NumEq(tok) == Cardinality({i \in 1..Len(tok) : tok[i] = "="})
InfoOfLine(c) == LineOf(c).cols[8]

\* C11: the INFO mapping of the Record appended at body-line-complete maps,
\* for every INFO subtoken of the line, the text before its first "=" to
\* all the text after it (the whole subtoken to the empty string when it has
\* no "=").
C11_InfoMapping ==
    [][(AtBodyLine /\ Appended(Cur)) =>
         \A i \in 1..Len(InfoOfLine(Cur)) :
            <<InfoKey(InfoOfLine(Cur)[i]), InfoValue(InfoOfLine(Cur)[i])>>
               \in Last(records'[Cur]).info]_vars

\* What does hold: a subtoken with at most one "=", whose key no earlier
\* subtoken of the line has, is mapped so.
C11_OneEqFirstKey ==
    [][(AtBodyLine /\ Appended(Cur)) =>
         \A i \in 1..Len(InfoOfLine(Cur)) :
            (/\ NumEq(InfoOfLine(Cur)[i]) <= 1
             /\ \A j \in 1..(i - 1) :
                   InfoKey(InfoOfLine(Cur)[j]) # InfoKey(InfoOfLine(Cur)[i]))
            => <<InfoKey(InfoOfLine(Cur)[i]), InfoValue(InfoOfLine(Cur)[i])>>
                  \in Last(records'[Cur]).info]_vars

\* C12: the Record appended at body-line-complete has one sample string per
\* sample column of the line, in column order, each the whole text of its
\* column.
SamplesOfLine(c) ==
    [i \in 1..(IF Len(LineOf(c).cols) > 9 THEN Len(LineOf(c).cols) - 9 ELSE 0)
       |-> LineOf(c).cols[9 + i]]
C12_SamplesVerbatim ==
    [][(AtBodyLine /\ Appended(Cur)) =>
         /\ Len(Last(records'[Cur]).samples) = Len(SamplesOfLine(Cur))
         /\ \A i \in 1..Len(SamplesOfLine(Cur)) :
               Last(records'[Cur]).samples[i] = Join(SamplesOfLine(Cur)[i], ":")]_vars

\* What does hold: one string per sample column, the column's first
\* sub-token.
C12_SamplesFirstSubToken ==
    [][(AtBodyLine /\ Appended(Cur)) =>
         /\ Len(Last(records'[Cur]).samples) = Len(SamplesOfLine(Cur))
         /\ \A i \in 1..Len(SamplesOfLine(Cur)) :
               Last(records'[Cur]).samples[i] = SamplesOfLine(Cur)[i][1]]_vars

\* C13: in the Materialize configurations the record sequence only grows at
\* its end, by at most one Record per step, and only at body-line-complete
\* of the parser concerned.
C13_RecordsAppendOnly ==
    [][\A c \in Names :
         Stores(c) =>
           /\ IsPrefix(records[c], records'[c])
           /\ Len(records'[c]) <= Len(records[c]) + 1
           /\ records'[c] # records[c] => (AtBodyLine /\ c = Cur)]_vars

C13_Reached ==
    /\ Done
    /\ status["Reader"] = "ended"
    /\ Len(records["Reader"]) = MaxBody
    /\ records["Reader"][1] # records["Reader"][MaxBody]

\* C14: after a newline event the Materialize policy holds nothing of the
\* line just ended: token buffer, token group, column map and type tag are
\* all empty.
AtNewline == Pending("newline") /\ Stores(Cur)
C14_NewlineClearsLine ==
    [][AtNewline =>
         /\ m_current_token'[Cur] = <<>>
         /\ m_grouped_tokens'[Cur] = <<>>
         /\ m_line_tokens'[Cur] = {}
         /\ m_line_typeid'[Cur] = <<>>]_vars

\* What does hold: buffer, group and column map are empty after a newline,
\* and the type tag is as it was.
C14_NewlineKeepsTypeTag ==
    [][AtNewline =>
         /\ m_current_token'[Cur] = <<>>
         /\ m_grouped_tokens'[Cur] = <<>>
         /\ m_line_tokens'[Cur] = {}
         /\ m_line_typeid'[Cur] = m_line_typeid[Cur]]_vars

\* C15: column-end with index i in 1..9 stores the group under the i-th
\* fixed column name and leaves the other entries of the column map; with
\* index 10 or more it appends one string to SAMPLES and leaves the other
\* entries; the group is empty afterwards; Source and records are unchanged.
FixedColumns == <<"CHROM", "POS", "ID", "REF", "ALT", "QUAL", "FILTER", "INFO", "FORMAT">>
Others(m, k) == {e \in m : e[1] # k}
AtColumnEnd == Pending("column_end") /\ Stores(Cur)
C15_ColumnEndFrame ==
    [][AtColumnEnd =>
         /\ n_columns[Cur] \in 1..9 =>
              /\ MapHas(m_line_tokens'[Cur], FixedColumns[n_columns[Cur]])
              /\ MapGet(m_line_tokens'[Cur], FixedColumns[n_columns[Cur]])
                    = m_grouped_tokens[Cur]
              /\ Others(m_line_tokens'[Cur], FixedColumns[n_columns[Cur]])
                    = Others(m_line_tokens[Cur], FixedColumns[n_columns[Cur]])
         /\ n_columns[Cur] >= 10 =>
              /\ IsPrefix(Group(m_line_tokens[Cur], "SAMPLES"),
                          Group(m_line_tokens'[Cur], "SAMPLES"))
              /\ Len(Group(m_line_tokens'[Cur], "SAMPLES"))
                    = Len(Group(m_line_tokens[Cur], "SAMPLES")) + 1
              /\ Others(m_line_tokens'[Cur], "SAMPLES")
                    = Others(m_line_tokens[Cur], "SAMPLES")
         /\ m_grouped_tokens'[Cur] = <<>>
         /\ source'[Cur] = source[Cur]
         /\ records'[Cur] = records[Cur]]_vars

C15_Reached ==
    /\ MapHas(m_line_tokens["Full"], "FORMAT")
    /\ MapGet(m_line_tokens["Full"], "POS") = <<POS_OK>>
    /\ Len(Group(m_line_tokens["Full"], "SAMPLES")) = MaxSamples
    /\ m_grouped_tokens["Full"] = <<>>

\* C16: once the header line is complete, no event changes the Source.
HeaderDone(c) ==
    /\ SectionOf(cs[c]) = "body"
    /\ ~(c = Cur /\ \E i \in 1..Len(todo) : todo[i].ev = "header_line")
C16_SourceFrozenInBody ==
    [][\A c \in Names : (Stores(c) /\ HeaderDone(c)) => source'[c] = source[c]]_vars

C16_Reached ==
    /\ Done
    /\ status["Whole"] = "ended"
    /\ source["Whole"].samples # <<>>
    /\ Len(records["Whole"]) = 1

\* C17: under IgnoreParsePolicy no event changes anything: Source and
\* records stay as at construction and current_token() is the empty string.
C17_DiscardIsNoOp ==
    \A c \in Names :
       ~Stores(c) =>
          /\ source[c] = EmptySource
          /\ records[c] = <<>>
          /\ Ignore_current_token(c) = <<>>

C17_Reached ==
    /\ Done
    /\ status["Quick"] = "ended"
    /\ n_lines["Quick"] = MaxBody + 3
    /\ Len(records["Full"]) = MaxBody
    /\ source["Full"].version = Ver

\* C18: for a Structured line that repeats a key, meta-line-complete adds a
\* MetaEntry that maps each key once, to the value of its last occurrence.
HasRepeatedKey(l) ==
    \E i, j \in 1..Len(l.pairs) : i < j /\ l.pairs[i][1] = l.pairs[j][1]
LastOccurrences(l) ==
    {<<l.pairs[i][1], l.pairs[i][2]>> :
       i \in {i \in 1..Len(l.pairs) :
                \A j \in (i + 1)..Len(l.pairs) : l.pairs[j][1] # l.pairs[i][1]}}
C18_DuplicateKeyLastWins ==
    [][(AtMetaLine /\ LineOf(Cur).shape = "Structured" /\ HasRepeatedKey(LineOf(Cur))) =>
         /\ Len(source'[Cur].meta) = Len(source[Cur].meta) + 1
         /\ Last(source'[Cur].meta).key_values = LastOccurrences(LineOf(Cur))]_vars

\* C19: each token is on the group once: at header-line-complete the group
\* has as many entries as the line has sample names, and at
\* meta-line-complete as many as the line has key and value tokens.
KeyValueTokens(l) ==
    CASE l.shape = "Scalar"     -> 1
      [] l.shape = "Structured" -> 2 * Len(l.pairs)
      [] l.shape = "Alt"        -> 2 * Len(l.pairs) + 2
      [] OTHER                  -> 0
C19_TokensPushedOnce ==
    /\ (Pending("header_line") /\ Stores(Cur) /\ LineOf(Cur).kind = "header") =>
          Len(m_grouped_tokens[Cur]) = Len(LineOf(Cur).samples)
    /\ (AtMetaLine /\ LineOf(Cur).kind = "meta" /\ LineOf(Cur).shape # "Plain") =>
          Len(m_grouped_tokens[Cur]) = KeyValueTokens(LineOf(Cur))

\* C20: the first element of a group is read only where the group has one:
\* at meta-line-complete with an empty type tag, at column-end with index
\* 10 or more, and at body-line-complete for CHROM, POS, REF and QUAL; no
\* run reads beyond a group.
C20_FirstElementInBounds ==
    /\ (AtMetaLine /\ m_line_typeid[Cur] = <<>>) => m_grouped_tokens[Cur] # <<>>
    /\ (AtColumnEnd /\ n_columns[Cur] >= 10) => m_grouped_tokens[Cur] # <<>>
    /\ AtBodyLine =>
          \A k \in {"CHROM", "POS", "REF", "QUAL"} :
             Group(m_line_tokens[Cur], k) # <<>>
    /\ \A c \in Names : status[c] # "undefined"

C20_Reached ==
    /\ AtBodyLine
    /\ Cur = "Reader"
    /\ Len(Group(m_line_tokens[Cur], "SAMPLES")) = 1
    /\ source["Reader"].meta = <<>>

====
